---------------------------- MODULE Spec2Model ----------------------------
(***************************************************************************)
(* A/B test toolkit for online ads: the metric analyzer                    *)
(* (src/src/analysis.py) and the synthetic data generator                  *)
(* (src/src/ab_test_online_ads/data_generation.py).                        *)
(*                                                                         *)
(* Three specifications share this module.  Spec is an analysis session:   *)
(* a caller holds a DataFrame, constructs an AbTestAnalyzer on it and      *)
(* calls the metric methods.  SharedSpec is the same session with a caller *)
(* that overwrites columns of its own DataFrame between the calls.         *)
(* GenSpec is the generator: a configuration is given and                  *)
(* generate_synthetic_data is run on it with every outcome of the draws.   *)
(*                                                                         *)
(* Numbers.  A Python/numpy float is a record [nan, n, d]: not-a-number,   *)
(* or the rational n/d in lowest terms with d > 0.                         *)
(*                                                                         *)
(* DataFrames.  A frame is [cols, rows]: its column names and a bag of     *)
(* rows, each row a function from cols to the cell's value.  The analyzer  *)
(* only aggregates (groupby + sum/count/mean, boolean filters), so the     *)
(* row order and the index are not part of the analyzer's state; the       *)
(* generator, whose impression_id is the row position, keeps a sequence.   *)
(*                                                                         *)
(* Library tests.  proportions_ztest and scipy's ttest_ind are not code   *)
(* of the repository.  What their arithmetic fixes is computed: the        *)
(* p-value is not-a-number when the statistic is 0/0, exactly 1 when the   *)
(* statistic is 0, exactly 0 when it is infinite.  For any other statistic *)
(* the tail probability is a value strictly between 0 and 1 that the       *)
(* model does not compute: the variable tail holds it, fixed for the       *)
(* whole behaviour (the library is deterministic) and drawn from           *)
(* TailValues in the initial state.                                        *)
(***************************************************************************)
EXTENDS Integers, Sequences, FiniteSets, Bags, TLC

VARIABLES
    heap,       \* object store: reference -> DataFrame value
    analyzer,   \* the AbTestAnalyzer: [constructed, df (a reference), alpha]
    tail,       \* the libraries' tail probability for a generic statistic
    last,       \* outcome of the last call: [op, arg, raised, result, summary]
    snapshot,   \* history: the frame and alpha the constructor was given
    mutations,  \* number of overwrites the caller made after construction
    config,     \* generator: the AdExperimentConfig
    generated   \* generator: outcome of generate_synthetic_data

vars == <<heap, analyzer, tail, last, snapshot, mutations, config, generated>>

----------------------------------------------------------------------------
(* Bounds *)

MaxRows == 4
MaxBadRows == 1
MaxMutations == 1
MaxSharedRows == 2
MaxImpressions == 3

----------------------------------------------------------------------------
(* Floats *)

Abs(x) == IF x < 0 THEN -x ELSE x

RECURSIVE GCD(_, _)
GCD(a, b) == IF b = 0 THEN a ELSE GCD(b, a % b)

NaN == [nan |-> TRUE, n |-> 0, d |-> 1]

\* The float a/b for integers a and b; b = 0 only occurs as numpy's 0/0.
Frac(a, b) ==
    LET g == GCD(Abs(a), Abs(b))
        s == IF b < 0 THEN -1 ELSE 1
    IN  IF b = 0 THEN NaN
        ELSE [nan |-> FALSE, n |-> s * (a \div g), d |-> Abs(b) \div g]

Zero == Frac(0, 1)
One == Frac(1, 1)

\* x < y on floats: any comparison with not-a-number is False.
FLess(x, y) == ~x.nan /\ ~y.nan /\ x.n * y.d < y.n * x.d

\* x <= y on floats.
FLeq(x, y) == ~x.nan /\ ~y.nan /\ x.n * y.d <= y.n * x.d

\* (b - a) / a for floats a # 0.
RelDiff(a, b) == Frac((b.n * a.d - a.n * b.d) * a.d, b.d * a.d * a.n)

----------------------------------------------------------------------------
(* DataFrames *)

required_cols == {"variant", "clicked", "converted", "revenue"}

AllCols == required_cols \cup {"user_id"}

Variants == {"A", "B"}

RevenueValues == {0, 1}

\* The rows of a frame that has every column: binary indicators, and a revenue
\* that is 0 when converted is 0.
FullRows ==
    {x \in [variant : Variants, clicked : {0, 1}, converted : {0, 1},
            revenue : RevenueValues, user_id : {1}] :
        x.converted = 0 => x.revenue = 0}

RowOn(r, cols) == [c \in cols |-> r[c]]

RECURSIVE RowBags(_, _)
\* Every bag of at most k rows drawn from R.
RowBags(R, k) ==
    IF k = 0 THEN {EmptyBag}
    ELSE LET smaller == RowBags(R, k - 1)
         IN  smaller \cup {b (+) SetToBag({r}) : b \in smaller, r \in R}

\* The frames a caller may hold: every column present (and one extra column),
\* up to k rows; or any subset of the columns, up to MaxBadRows rows.
Frames(k) ==
    {[cols |-> AllCols, rows |-> b] : b \in RowBags(FullRows, k)}
    \cup
    UNION {{[cols |-> cs, rows |-> b] :
                b \in RowBags({RowOn(r, cs) : r \in FullRows}, MaxBadRows)} :
           cs \in SUBSET AllCols}

RECURSIVE Total(_, _)
\* Sum of W[r] over the rows r in S.
Total(S, W) ==
    IF S = {} THEN 0
    ELSE LET r == CHOOSE x \in S : TRUE
         IN  W[r] + Total(S \ {r}, W)

\* len(rows)
NRows(rows) == Total(DOMAIN rows, rows)

\* rows[rows[col] == v]: the rows selected by the mask, with their multiplicities.
Select(rows, col, v) == [r \in {x \in DOMAIN rows : x[col] = v} |-> rows[r]]

\* Mutant of GroupIndex: both labels always in the index (unobserved groups kept).
GroupIndexAs(df) == Variants

\* df.groupby("variant").<...>.index: the variant labels that occur.
GroupIndex(df) == {r["variant"] : r \in DOMAIN df.rows}

\* The rows of one group: df[df["variant"] == v].
GroupRows(df, v) == Select(df.rows, "variant", v)

\* groupby("variant")[col].agg("sum") at label v.
GroupSum(df, v, col) ==
    LET g == GroupRows(df, v)
    IN  Total(DOMAIN g, [r \in DOMAIN g |-> g[r] * r[col]])

\* Mutant of GroupCount: the count of the whole frame, not of the group.
GroupCountAs(df, v) == NRows(df.rows)

\* groupby("variant")[col].agg("count") at label v.
GroupCount(df, v) == NRows(GroupRows(df, v))

\* Sum of the squares of a column within one group (for the sample variance).
GroupSumSq(df, v, col) ==
    LET g == GroupRows(df, v)
    IN  Total(DOMAIN g, [r \in DOMAIN g |-> g[r] * r[col] * r[col]])

----------------------------------------------------------------------------
(* The statistical tests of statsmodels and scipy *)

TailValues == {Frac(1, 100), Frac(1, 20), Frac(1, 2)}

\* proportions_ztest(successes, nobs)[1]: the two-sided p-value of the pooled
\* two-proportion z-test.  var_ = p_pooled * (1 - p_pooled) * sum(1/nobs) is 0
\* exactly when all trials or none succeeded; both rates are then equal and
\* the statistic is 0/0.
proportions_ztest(s_a, n_a, s_b, n_b) ==
    LET pooled_s == s_a + s_b
        pooled_n == n_a + n_b
    IN  IF pooled_s = 0 \/ pooled_s = pooled_n THEN NaN
        ELSE IF s_a * n_b = s_b * n_a THEN One
        ELSE tail

\* stats.ttest_ind(a, b, equal_var=False)[1]: the two-sided p-value of Welch's
\* t-test, from each sample's size, sum and sum of squares.  A sample of one
\* observation has no variance (0/0); two constant samples give the statistic
\* (mean_a - mean_b) / 0.
ttest_ind(n_a, sum_a, sq_a, n_b, sum_b, sq_b) ==
    LET const_a == n_a * sq_a = sum_a * sum_a
        const_b == n_b * sq_b = sum_b * sum_b
        same_mean == sum_a * n_b = sum_b * n_a
    IN  IF n_a < 2 \/ n_b < 2 THEN NaN
        ELSE IF const_a /\ const_b THEN (IF same_mean THEN NaN ELSE Zero)
        ELSE IF same_mean THEN One
        ELSE tail

----------------------------------------------------------------------------
(* Errors and outcomes.  Every error of analysis.py is a ValueError; kind       *)
(* tells the raise statements apart:                                            *)
(*   SchemaError          "Missing required columns: {missing}"                 *)
(*   MissingVariantError  "Both variants A and B must be present in data."      *)
(*   NoClicksError        "No clicks in dataset to compute conversion per       *)
(*                         click."                                              *)
(*   InvalidArgumentError "denominator must be 'impressions' or 'clicks'"       *)

NoError == [type |-> "none", kind |-> "none", missing |-> {}]

ValueError(kind, missing) == [type |-> "ValueError", kind |-> kind, missing |-> missing]

\* A call that raised: nothing is returned.
Raise(err) == [raised |-> err, result |-> <<>>]

\* A call that returned r.
Return(r) == [raised |-> NoError, result |-> <<r>>]

MetricResult(metric_name, variant_a, variant_b, lift, p_value, significant) ==
    [metric_name |-> metric_name, variant_a |-> variant_a, variant_b |-> variant_b,
     lift |-> lift, p_value |-> p_value, significant |-> significant]

----------------------------------------------------------------------------
(* AbTestAnalyzer.  self is [df, alpha] with df the frame's value. *)

\* Mutant of CopyRef: self.df = df, the caller's own object.
CopyRefAs(ref, fresh) == ref

\* df.copy(): the new object's reference, given the frame's and a fresh one.
CopyRef(ref, fresh) == fresh

\* Mutant of MissingCols: revenue left out of required_cols.
MissingColsAs(df) == (required_cols \ {"revenue"}) \ df.cols

\* AbTestAnalyzer.__init__ without the copy: the validation of the columns.
MissingCols(df) == required_cols \ df.cols

\* AbTestAnalyzer(df, alpha) as a value (the frame copied by value).
AbTestAnalyzer(df, alpha) ==
    IF MissingCols(df) # {}
    THEN Raise(ValueError("SchemaError", MissingCols(df)))
    ELSE Return([df |-> df, alpha |-> alpha])

\* Mutant of Significant: p_value <= self.alpha.
SignificantAs(p_value, alpha) == FLeq(p_value, alpha)

\* significant = p_value < self.alpha
Significant(p_value, alpha) == FLess(p_value, alpha)

\* Mutant of RateLift: a zero baseline gives lift 0.
RateLiftAs(rate_a, rate_b) ==
    IF FLess(Zero, rate_a) THEN RelDiff(rate_a, rate_b) ELSE Zero

\* lift = (rate_b - rate_a) / rate_a if rate_a > 0 else np.nan
RateLift(rate_a, rate_b) ==
    IF FLess(Zero, rate_a) THEN RelDiff(rate_a, rate_b) ELSE NaN

\* lift = (mean_b - mean_a) / mean_a if mean_a != 0 else np.nan
MeanLift(mean_a, mean_b) ==
    IF mean_a # Zero THEN RelDiff(mean_a, mean_b) ELSE NaN

\* self._binary_ztest(success_col, metric_name)
_binary_ztest(self, success_col, metric_name) ==
    IF ~({"A", "B"} \subseteq GroupIndex(self.df))
    THEN Raise(ValueError("MissingVariantError", {}))
    ELSE LET s_a == GroupSum(self.df, "A", success_col)
             s_b == GroupSum(self.df, "B", success_col)
             n_a == GroupCount(self.df, "A")
             n_b == GroupCount(self.df, "B")
             p_value == proportions_ztest(s_a, n_a, s_b, n_b)
             rate_a == Frac(s_a, n_a)
             rate_b == Frac(s_b, n_b)
         IN  Return(MetricResult(metric_name, rate_a, rate_b,
                                 RateLift(rate_a, rate_b), p_value,
                                 Significant(p_value, self.alpha)))

\* self.ctr()
ctr(self) == _binary_ztest(self, "clicked", "click_through_rate")

\* Mutant of ClickedRows: the filter dropped.
ClickedRowsAs(df) == df

\* self.df[self.df["clicked"] == 1].copy()
ClickedRows(df) ==
    [cols |-> df.cols, rows |-> Select(df.rows, "clicked", 1)]

\* self.conversion_rate(denominator)
conversion_rate(self, denominator) ==
    IF denominator = "impressions"
    THEN _binary_ztest(self, "converted", "conversion_rate_per_impression")
    ELSE IF denominator = "clicks"
    THEN LET df_clicked == ClickedRows(self.df)
             inner == AbTestAnalyzer(df_clicked, self.alpha)
         IN  IF NRows(df_clicked.rows) = 0
             THEN Raise(ValueError("NoClicksError", {}))
             ELSE IF inner.raised # NoError THEN Raise(inner.raised)
             ELSE _binary_ztest(inner.result[1], "converted",
                              "conversion_rate_per_click")
    ELSE Raise(ValueError("InvalidArgumentError", {}))

\* self.revenue_per_impression()
revenue_per_impression(self) ==
    IF ~({"A", "B"} \subseteq GroupIndex(self.df))
    THEN Raise(ValueError("MissingVariantError", {}))
    ELSE LET n_a == GroupCount(self.df, "A")
             n_b == GroupCount(self.df, "B")
             sum_a == GroupSum(self.df, "A", "revenue")
             sum_b == GroupSum(self.df, "B", "revenue")
             p_value == ttest_ind(n_a, sum_a, GroupSumSq(self.df, "A", "revenue"),
                                 n_b, sum_b, GroupSumSq(self.df, "B", "revenue"))
             mean_a == Frac(sum_a, n_a)
             mean_b == Frac(sum_b, n_b)
         IN  Return(MetricResult("revenue_per_impression", mean_a, mean_b,
                                 MeanLift(mean_a, mean_b), p_value,
                                 Significant(p_value, self.alpha)))

\* One entry of the summary: the MetricResult as a dict.
AsDict(r) ==
    [metric |-> r.metric_name, variant_a |-> r.variant_a, variant_b |-> r.variant_b,
     lift |-> r.lift, p_value |-> r.p_value, significant |-> r.significant]

\* The three metric calls of summarize(), in the order it makes them.
SummaryCalls(self) ==
    <<[key |-> "ctr", out |-> ctr(self)],
      [key |-> "conversion_rate_per_impression",
       out |-> conversion_rate(self, "impressions")],
      [key |-> "revenue_per_impression", out |-> revenue_per_impression(self)]>>

\* Mutant of summarize: a metric that raises is left out of the dict.
SummarizeAs(self) ==
    LET calls == SummaryCalls(self)
        done == {i \in 1..Len(calls) : calls[i].out.raised = NoError}
    IN  Return([k \in {calls[i].key : i \in done} |->
                   LET i == CHOOSE j \in done : calls[j].key = k
                   IN  AsDict(calls[i].out.result[1])])

\* self.summarize(): the first metric that raises ends the call; otherwise the
\* dict of the three results.
summarize(self) ==
    LET calls == SummaryCalls(self)
        failed == {i \in 1..Len(calls) : calls[i].out.raised # NoError}
    IN  IF failed # {}
        THEN LET first == CHOOSE i \in failed : \A j \in failed : i <= j
             IN  Raise(calls[first].out.raised)
        ELSE Return([k \in {calls[i].key : i \in 1..Len(calls)} |->
                        LET i == CHOOSE j \in 1..Len(calls) : calls[j].key = k
                        IN  AsDict(calls[i].out.result[1])])

----------------------------------------------------------------------------
(* The analysis session *)

AlphaValues == {Frac(1, 20), One}

Denominators == {"impressions", "clicks", "users"}

NoAnalyzer == [constructed |-> FALSE, df |-> "none", alpha |-> Zero]

NoFrame == [cols |-> {}, rows |-> EmptyBag]

NoCall == [op |-> "none", arg |-> "", raised |-> NoError, result |-> <<>>, seen |-> 0]

\* The record of a call: what it raised or returned, and how many overwrites
\* the caller had made before it.
Called(op, arg, out) ==
    [op |-> op, arg |-> arg, raised |-> out.raised, result |-> out.result,
     seen |-> mutations]

\* The analyzer as the methods see it: self.df dereferenced.
Self == [df |-> heap[analyzer.df], alpha |-> analyzer.alpha]

\* df[col] = v by the caller, on its own frame: every cell of the column.
Assign(df, col, v) ==
    LET image(r) == [c \in df.cols \cup {col} |-> IF c = col THEN v ELSE r[c]]
        keys == {image(r) : r \in DOMAIN df.rows}
    IN  [cols |-> df.cols \cup {col},
         rows |-> [k \in keys |->
                     LET src == {r \in DOMAIN df.rows : image(r) = k}
                     IN  Total(src, df.rows)]]

\* The overwrites the caller makes: a column reset to one value.
Assignments ==
    {<<"variant", "A">>, <<"clicked", 0>>, <<"converted", 0>>, <<"revenue", 0>>}

AnalysisInit(frames, tails) ==
    /\ heap \in {[ref \in {"caller"} |-> df] : df \in frames}
    /\ analyzer = NoAnalyzer
    /\ tail \in tails
    /\ last = NoCall
    /\ snapshot = [df |-> NoFrame, alpha |-> Zero]
    /\ mutations = 0

\* analyzer = AbTestAnalyzer(df, alpha)
Construct(alpha) ==
    /\ ~analyzer.constructed
    /\ LET df == heap["caller"]
           out == AbTestAnalyzer(df, alpha)
           ref == CopyRef("caller", "copy")
       IN  IF out.raised # NoError
           THEN /\ last' = Called("__init__", "", Raise(out.raised))
                /\ UNCHANGED <<heap, analyzer, snapshot>>
           ELSE /\ heap' = (ref :> df) @@ heap
                /\ analyzer' = [constructed |-> TRUE, df |-> ref, alpha |-> alpha]
                /\ snapshot' = [df |-> df, alpha |-> alpha]
                /\ last' = Called("__init__", "", Raise(NoError))
    /\ UNCHANGED <<tail, mutations, config, generated>>

\* analyzer.ctr()
CallCtr ==
    /\ analyzer.constructed
    /\ last' = Called("ctr", "", ctr(Self))
    /\ UNCHANGED <<heap, analyzer, tail, snapshot, mutations, config, generated>>

\* analyzer.conversion_rate(denominator)
CallConversionRate(denominator) ==
    /\ analyzer.constructed
    /\ last' = Called("conversion_rate", denominator, conversion_rate(Self, denominator))
    /\ UNCHANGED <<heap, analyzer, tail, snapshot, mutations, config, generated>>

\* analyzer.revenue_per_impression()
CallRevenuePerImpression ==
    /\ analyzer.constructed
    /\ last' = Called("revenue_per_impression", "", revenue_per_impression(Self))
    /\ UNCHANGED <<heap, analyzer, tail, snapshot, mutations, config, generated>>

\* analyzer.summarize()
CallSummarize ==
    /\ analyzer.constructed
    /\ last' = Called("summarize", "", summarize(Self))
    /\ UNCHANGED <<heap, analyzer, tail, snapshot, mutations, config, generated>>

\* The caller overwrites a column of the frame it passed to the constructor.
MutateCaller(col, v) ==
    /\ analyzer.constructed
    /\ mutations < MaxMutations
    /\ heap' = [heap EXCEPT !["caller"] = Assign(@, col, v)]
    /\ mutations' = mutations + 1
    /\ UNCHANGED <<analyzer, tail, last, snapshot, config, generated>>

AnalysisNext ==
    \/ \E alpha \in AlphaValues : Construct(alpha)
    \/ CallCtr
    \/ \E denominator \in Denominators : CallConversionRate(denominator)
    \/ CallRevenuePerImpression
    \/ CallSummarize

\* An analysis session on a frame that nothing else touches.
Init ==
    /\ AnalysisInit(Frames(MaxRows), TailValues)
    /\ config = <<>>
    /\ generated = <<>>

Next == AnalysisNext

Spec == Init /\ [][Next]_vars

\* An analysis session whose caller goes on overwriting the frame it passed.
\* What the analyzer holds does not depend on the libraries' tail value: one
\* value is enough here.
SharedInit ==
    /\ AnalysisInit(Frames(MaxSharedRows), {Frac(1, 20)})
    /\ config = <<>>
    /\ generated = <<>>

SharedNext ==
    \/ AnalysisNext
    \/ \E a \in Assignments : MutateCaller(a[1], a[2])

SharedSpec == SharedInit /\ [][SharedNext]_vars

----------------------------------------------------------------------------
(* The synthetic data generator.  The draws of numpy's global generator are  *)
(* inputs of the step: np.random.seed only selects which of them occur.      *)

RateValues == {Zero, Frac(1, 2), One}

\* np.random.rand: values in [0, 1).
UniformValues == {Zero, Frac(1, 2)}

\* Standard normal deviates; a draw of normal(loc, scale) is loc + scale * z.
NormalValues == {-2, 0, 1}

RevMeanA == {1}

RevMeanB == {2}

RevStdValues == {0, 1}

\* AdExperimentConfig, n_impressions a positive integer.
AdExperimentConfig ==
    [n_impressions : 1..MaxImpressions,
     ctr_a : RateValues, ctr_b : RateValues,
     conv_a : RateValues, conv_b : RateValues,
     rev_mean_a : RevMeanA, rev_mean_b : RevMeanB, rev_std : RevStdValues]

\* np.random.randint(low, high): the integers of [low, high); ValueError
\* ("low >= high") when there are none.
RandintRange(low, high) == low..(high - 1)

\* x.clip(min=0)
ClipMin0(x) == IF x < 0 THEN 0 ELSE x

\* (u < rate).astype(int)
Bernoulli(u, rate) == IF FLess(u, rate) THEN 1 ELSE 0

\* np.where(variants == "A", a, b) at one row
PerVariant(variant, a, b) == IF variant = "A" THEN a ELSE b

\* np.arange(1, n + 1) at row i
ImpressionId(i) == i

\* Row i of the frame built from the draws.
GeneratedRow(cfg, i, variants, u_click, u_conv, z, users) ==
    LET converted == Bernoulli(u_conv[i], PerVariant(variants[i], cfg.conv_a, cfg.conv_b))
        mean == PerVariant(variants[i], cfg.rev_mean_a, cfg.rev_mean_b)
    IN  [impression_id |-> ImpressionId(i),
         user_id |-> users[i],
         variant |-> variants[i],
         clicked |-> Bernoulli(u_click[i], PerVariant(variants[i], cfg.ctr_a, cfg.ctr_b)),
         converted |-> converted,
         revenue |-> IF converted = 1 THEN ClipMin0(mean + cfg.rev_std * z[i]) ELSE 0]

\* generate_synthetic_data(cfg)
generate_synthetic_data ==
    /\ generated = <<>>
    /\ LET n == config.n_impressions
           user_ids == RandintRange(1, n \div 2 + 1)
       IN  \E variants \in [1..n -> Variants], u_click \in [1..n -> UniformValues],
              u_conv \in [1..n -> UniformValues], z \in [1..n -> NormalValues] :
               IF user_ids = {}
               THEN generated' = <<Raise(ValueError("low >= high", {}))>>
               ELSE \E users \in [1..n -> user_ids] :
                       generated' = <<Return([i \in 1..n |->
                           GeneratedRow(config, i, variants, u_click, u_conv, z, users)])>>
    /\ UNCHANGED <<heap, analyzer, tail, last, snapshot, mutations, config>>

GenInit ==
    /\ config \in AdExperimentConfig
    /\ generated = <<>>
    /\ heap = [ref \in {"caller"} |-> NoFrame]
    /\ analyzer = NoAnalyzer
    /\ tail = One
    /\ last = NoCall
    /\ snapshot = [df |-> NoFrame, alpha |-> Zero]
    /\ mutations = 0

GenNext == generate_synthetic_data

GenSpec == GenInit /\ [][GenNext]_vars

----------------------------------------------------------------------------
(* Properties.  They are stated on the frame the constructor was given,      *)
(* counted row by row, and on the recorded outcome of the last call.         *)

Given == snapshot.df

\* Number of rows of a bag whose cells are those of want (column -> value).
CountRows(rows, want) ==
    BagCardinality([r \in {x \in DOMAIN rows : \A c \in DOMAIN want : x[c] = want[c]}
                      |-> rows[r]])

\* The rows a metric compares: the clicked rows for conversion_rate("clicks"),
\* every row otherwise.
Compared ==
    IF last.op = "conversion_rate" /\ last.arg = "clicks"
    THEN [r \in {x \in DOMAIN Given.rows : x["clicked"] = 1} |-> Given.rows[r]]
    ELSE Given.rows

\* The variants that occur among the compared rows.
ComparedVariants == {r["variant"] : r \in DOMAIN Compared}

IsMetricCall ==
    \/ last.op \in {"ctr", "revenue_per_impression"}
    \/ last.op = "conversion_rate" /\ last.arg \in {"impressions", "clicks"}

Returned == last.raised = NoError /\ Len(last.result) = 1

\* The float x is the ratio a / b of two integers, b > 0.
IsRatio(x, a, b) == ~x.nan /\ x.n * b = a * x.d

\* The float z is (y - x) / x for floats x # 0 and y.
IsRelDiff(z, x, y) ==
    ~z.nan /\ z.n * (x.n * y.d) = z.d * (y.n * x.d - x.n * y.d)

InUnitInterval(x) == ~x.nan /\ 0 <= x.n /\ x.n <= x.d

\* C1: on a dataset with both variants, ctr() (column clicked) and
\* conversion_rate("impressions") (column converted) return
\* variant_a = successes_A / trials_A and variant_b = successes_B / trials_B,
\* both in [0, 1], and lift = (variant_b - variant_a) / variant_a when
\* variant_a is not 0.
C1_RatesAreObservedRatios ==
    LET col == IF last.op = "ctr" THEN "clicked" ELSE "converted"
        trials(v) == CountRows(Given.rows, "variant" :> v)
        successes(v) == CountRows(Given.rows, "variant" :> v @@ col :> 1)
        res == last.result[1]
    IN  (/\ \/ last.op = "ctr"
            \/ last.op = "conversion_rate" /\ last.arg = "impressions"
         /\ trials("A") > 0
         /\ trials("B") > 0)
        => /\ Returned
           /\ IsRatio(res.variant_a, successes("A"), trials("A"))
           /\ IsRatio(res.variant_b, successes("B"), trials("B"))
           /\ InUnitInterval(res.variant_a)
           /\ InUnitInterval(res.variant_b)
           /\ (res.variant_a.n # 0 => IsRelDiff(res.lift, res.variant_a, res.variant_b))

\* A = 1 click / 2 impressions, B clicked on every impression: rates 0.5
\* and 1.0, lift 1.0.
C1_Witness ==
    /\ last.op = "ctr"
    /\ Returned
    /\ CountRows(Given.rows, "variant" :> "A") = 2
    /\ last.result[1].variant_a = Frac(1, 2)
    /\ last.result[1].variant_b = One
    /\ last.result[1].lift = One

\* C2: the constructor fails with a SchemaError listing exactly the required
\* columns the dataset lacks, and creates no analyzer, when any is absent; it
\* succeeds when all four are present, whatever other columns there are.
C2_ConstructorValidatesColumns ==
    LET df == heap["caller"]
        absent == {c \in {"variant", "clicked", "converted", "revenue"} : c \notin df.cols}
    IN  last.op = "__init__"
        => IF absent # {}
           THEN /\ last.raised.kind = "SchemaError"
                /\ last.raised.missing = absent
                /\ ~analyzer.constructed
           ELSE /\ last.raised = NoError
                /\ analyzer.constructed
                /\ analyzer.alpha \in AlphaValues

\* A dataset without the revenue column (and nothing else missing).
C2_Witness ==
    /\ last.op = "__init__"
    /\ last.raised.kind = "SchemaError"
    /\ last.raised.missing = {"revenue"}
    /\ "user_id" \in heap["caller"].cols
    /\ heap["caller"].rows # EmptyBag

RECURSIVE SumByValue(_, _, _)
\* Sum of a column over a bag of rows: each value in S times the number of
\* rows that hold it.
SumByValue(S, rows, col) ==
    IF S = {} THEN 0
    ELSE LET v == CHOOSE x \in S : TRUE
         IN  v * CountRows(rows, col :> v) + SumByValue(S \ {v}, rows, col)

ColumnSum(rows, col) == SumByValue({r[col] : r \in DOMAIN rows}, rows, col)

\* The column a metric call aggregates.
MetricColumn ==
    IF last.op = "ctr" THEN "clicked"
    ELSE IF last.op = "conversion_rate" THEN "converted"
    ELSE "revenue"

\* The compared rows of one variant.
ComparedOf(v) == [r \in {x \in DOMAIN Compared : x["variant"] = v} |-> Compared[r]]

\* C3 as claimed: every metric call whose compared rows lack "A", "B" or both
\* fails with MissingVariantError and returns nothing.
C3_MissingVariantAlwaysReported ==
    (IsMetricCall /\ ~({"A", "B"} \subseteq ComparedVariants))
    => /\ last.result = <<>>
       /\ last.raised.kind = "MissingVariantError"

\* C3 as amended: the same, except that conversion_rate("clicks") with no
\* clicked row at all fails with NoClicksError; in no case is a result returned.
C3_MissingVariantOrNoClicks ==
    (IsMetricCall /\ ~({"A", "B"} \subseteq ComparedVariants))
    => /\ last.result = <<>>
       /\ last.raised.type = "ValueError"
       /\ last.raised.kind =
            IF last.op = "conversion_rate" /\ last.arg = "clicks" /\ Compared = EmptyBag
            THEN "NoClicksError"
            ELSE "MissingVariantError"

\* Both variants in the dataset, but only variant A among the clicked rows.
C3_Witness ==
    /\ last.op = "conversion_rate"
    /\ last.arg = "clicks"
    /\ {r["variant"] : r \in DOMAIN Given.rows} = {"A", "B"}
    /\ ComparedVariants = {"A"}
    /\ last.raised.kind = "MissingVariantError"
    /\ last.result = <<>>

\* C4: when both variants are present and A's statistic is exactly 0, the
\* call raises nothing and returns lift = not-a-number with variant_a = 0 and
\* variant_b the observed statistic of B.
C4_ZeroBaselineGivesNaNLift ==
    (/\ IsMetricCall
     /\ {"A", "B"} \subseteq ComparedVariants
     /\ ColumnSum(ComparedOf("A"), MetricColumn) = 0)
    => /\ Returned
       /\ last.result[1].lift.nan
       /\ last.result[1].variant_a = Zero
       /\ IsRatio(last.result[1].variant_b, ColumnSum(ComparedOf("B"), MetricColumn),
                  BagCardinality(ComparedOf("B")))

\* A rate of 0 for A and a positive one for B.
C4_Witness ==
    /\ last.op = "ctr"
    /\ Returned
    /\ last.result[1].variant_a = Zero
    /\ last.result[1].variant_b = Frac(1, 2)
    /\ last.result[1].lift.nan

\* C5: conversion_rate(denominator): "impressions" compares converted over all
\* rows; "clicks" compares converted over the rows with clicked = 1 and fails
\* with NoClicksError when there is none; any other value fails with
\* InvalidArgumentError and computes nothing.
C5_ConversionRateDispatch ==
    LET both == {"A", "B"} \subseteq ComparedVariants
        rate(v) == [s |-> CountRows(ComparedOf(v), "converted" :> 1),
                    t |-> BagCardinality(ComparedOf(v))]
        compares(name) ==
            IF both
            THEN /\ Returned
                 /\ last.result[1].metric_name = name
                 /\ IsRatio(last.result[1].variant_a, rate("A").s, rate("A").t)
                 /\ IsRatio(last.result[1].variant_b, rate("B").s, rate("B").t)
            ELSE last.result = <<>> /\ last.raised # NoError
    IN  last.op = "conversion_rate"
        => IF last.arg = "impressions"
           THEN Compared = Given.rows /\ compares("conversion_rate_per_impression")
           ELSE IF last.arg = "clicks"
           THEN IF CountRows(Given.rows, "clicked" :> 1) = 0
                THEN last.result = <<>> /\ last.raised.kind = "NoClicksError"
                ELSE compares("conversion_rate_per_click")
           ELSE last.result = <<>> /\ last.raised.kind = "InvalidArgumentError"

\* A per-click rate that differs from the per-impression rate of the same data.
C5_Witness ==
    /\ last.op = "conversion_rate"
    /\ last.arg = "clicks"
    /\ Returned
    /\ ~IsRatio(last.result[1].variant_a,
                CountRows(Given.rows, "variant" :> "A" @@ "converted" :> 1),
                CountRows(Given.rows, "variant" :> "A"))

\* C6: whenever a metric call returns a result, its p_value lies in [0, 1].
C6_PValueInUnitInterval ==
    (IsMetricCall /\ Returned) => InUnitInterval(last.result[1].p_value)

SummaryKeys == {"ctr", "conversion_rate_per_impression", "revenue_per_impression"}

\* The analyzer as constructed: the frame and alpha the constructor was given.
AsConstructed == [df |-> snapshot.df, alpha |-> snapshot.alpha]

\* The call of the analyzer that fills one key of the summary.
MetricFor(key) ==
    IF key = "ctr" THEN ctr(AsConstructed)
    ELSE IF key = "conversion_rate_per_impression"
    THEN conversion_rate(AsConstructed, "impressions")
    ELSE revenue_per_impression(AsConstructed)

\* C7: summarize() either returns a mapping with exactly the keys "ctr",
\* "conversion_rate_per_impression" and "revenue_per_impression", each entry
\* holding the six fields of the corresponding metric call, or, when one of
\* these metrics fails, raises that failure and returns nothing.
C7_SummarizeAllOrNothing ==
    LET failures == {MetricFor(k).raised : k \in SummaryKeys} \ {NoError}
    IN  last.op = "summarize"
        => IF failures = {}
           THEN /\ Returned
                /\ DOMAIN last.result[1] = SummaryKeys
                /\ \A k \in SummaryKeys :
                     LET e == last.result[1][k]
                         r == MetricFor(k).result[1]
                     IN  /\ DOMAIN e = {"metric", "variant_a", "variant_b", "lift",
                                        "p_value", "significant"}
                         /\ e.metric = r.metric_name
                         /\ e.variant_a = r.variant_a
                         /\ e.variant_b = r.variant_b
                         /\ e.lift = r.lift
                         /\ e.p_value = r.p_value
                         /\ e.significant = r.significant
           ELSE /\ last.result = <<>>
                /\ last.raised \in failures

\* A summary whose three entries are three different metrics.
C7_Witness ==
    /\ last.op = "summarize"
    /\ Returned
    /\ last.result[1]["ctr"].metric = "click_through_rate"
    /\ last.result[1]["revenue_per_impression"].variant_b = Frac(1, 2)
    /\ last.result[1]["ctr"].variant_b # last.result[1]["conversion_rate_per_impression"].variant_b

IsAnalyzerCall == IsMetricCall \/ last.op = "summarize" \/ last.op = "conversion_rate"

\* What a call would give on the analyzer as constructed.
OutcomeAsConstructed ==
    IF last.op = "ctr" THEN ctr(AsConstructed)
    ELSE IF last.op = "conversion_rate" THEN conversion_rate(AsConstructed, last.arg)
    ELSE IF last.op = "revenue_per_impression" THEN revenue_per_impression(AsConstructed)
    ELSE summarize(AsConstructed)

\* C8: whatever calls were made and whatever the caller did to its own frame,
\* the analyzer's data and alpha are those it was constructed with, and every
\* call gives the result it would give right after construction.
C8_PrivateCopyUnaffected ==
    analyzer.constructed
    => /\ heap[analyzer.df] = snapshot.df
       /\ analyzer.alpha = snapshot.alpha
       /\ IsAnalyzerCall
          => /\ last.raised = OutcomeAsConstructed.raised
             /\ last.result = OutcomeAsConstructed.result

\* A call made after the caller emptied a variant out of its own frame returns
\* a result, though the caller's frame no longer holds both variants.
C8_Witness ==
    /\ analyzer.constructed
    /\ last.op = "ctr"
    /\ last.seen > 0
    /\ Returned
    /\ {r["variant"] : r \in DOMAIN heap["caller"].rows} = {"A"}

\* C9: significant is the strict comparison p_value < alpha with the alpha
\* given at construction: false when p_value equals alpha and when p_value is
\* not a number.
C9_SignificantIsStrictBelowAlpha ==
    (IsMetricCall /\ Returned)
    => LET p == last.result[1].p_value
           alpha == snapshot.alpha
       IN  last.result[1].significant
           <=> (~p.nan /\ p.n * alpha.d < alpha.n * p.d)

\* A p-value equal to alpha (0.05), which is not significant.
C9_Witness ==
    /\ IsMetricCall
    /\ Returned
    /\ last.result[1].p_value = snapshot.alpha
    /\ snapshot.alpha = Frac(1, 20)
    /\ ~last.result[1].significant

\* The frame of a generated dataset is well formed for n impressions.
WellFormed(rows, n) ==
    /\ Len(rows) = n
    /\ \A i \in 1..Len(rows) :
         /\ rows[i].impression_id = i
         /\ rows[i].variant \in {"A", "B"}
         /\ rows[i].clicked \in {0, 1}
         /\ rows[i].converted \in {0, 1}
         /\ rows[i].revenue >= 0
         /\ rows[i].converted = 0 => rows[i].revenue = 0

\* C10: for every configuration with n_impressions a positive integer
\* (n_impressions = 1 included) and every outcome of the draws, generate
\* returns a well-formed dataset of exactly n_impressions rows.
C10_GenerateWellFormed ==
    generated # <<>>
    => /\ generated[1].raised = NoError
       /\ Len(generated[1].result) = 1
       /\ WellFormed(generated[1].result[1], config.n_impressions)

=============================================================================
